---- MODULE Spec2Model ----
(***************************************************************************)
(* Session layer of the language server in server/src/server.ts: the       *)
(* capability handshake, the open-document table (TextDocuments), the      *)
(* per-resource settings cache (documentSettings), the validation passes   *)
(* (validateTextDocument) that suspend on a settings fetch, and the        *)
(* read-only completion / hover / signature-help requests.                 *)
(*                                                                         *)
(* One action is one macrotask of the Node event loop: an inbound message  *)
(* handler together with every promise continuation that is already        *)
(* runnable when the handler returns.  A continuation that waits for a     *)
(* client round trip stays in `waiters` until the response is delivered.   *)
(***************************************************************************)
EXTENDS Integers, Sequences, FiniteSets, TLC

\* ------------------------------------------------------------------ bounds
MaxVersion == 2      \* document versions the client may send: 1..MaxVersion
MaxFetches == 2      \* settings promises alive at once
MaxWaiters == 3      \* suspended continuations alive at once

URISeq == <<"doc://a", "doc://b">>
URIs   == {URISeq[i] : i \in DOMAIN URISeq}
Texts == {"x = 1", "x = ((", "x = '"}

\* --------------------------------------------------------------- settings
defaultSettings == [maxNumberOfProblems |-> 1000, enabledSyntaxDiagnostic |-> FALSE]

SettingsValues ==
  { defaultSettings,
    [maxNumberOfProblems |-> 1, enabledSyntaxDiagnostic |-> TRUE] }

\* The `settings` member of DidChangeConfigurationParams: null, or an object
\* that carries one configuration section (a section is <<>> when missing).
NoSettings == [present |-> FALSE, lsp |-> <<>>, languageServerExample |-> <<>>]

\* How the client packs its configuration `value` into the notification:
\* not at all (null), under section `lsp`, or under `languageServerExample`.
Shapes == {"null", "lsp", "languageServerExample"}

Payload(shape, value) ==
  IF shape = "lsp"
  THEN [present |-> TRUE, lsp |-> <<value>>, languageServerExample |-> <<>>]
  ELSE IF shape = "languageServerExample"
  THEN [present |-> TRUE, lsp |-> <<>>, languageServerExample |-> <<value>>]
  ELSE NoSettings

\* Client capability records sent with initialize (a sub-record is <<>> when
\* the client leaves it out).
ClientCapabilities ==
  { [workspace |-> <<>>, textDocument |-> <<>>],
    [workspace |-> <<[configuration |-> TRUE, workspaceFolders |-> FALSE]>>,
     textDocument |-> <<[publishDiagnostics |-> <<>>]>>],
    [workspace |-> <<[configuration |-> FALSE, workspaceFolders |-> TRUE]>>,
     textDocument |-> <<[publishDiagnostics |-> <<[relatedInformation |-> TRUE]>>]>>] }

\* InitializeParams as they arrive: `capabilities` is <<>> when the untyped
\* payload has no such member.
InitializeParamsValues ==
  {[capabilities |-> <<c>>] : c \in ClientCapabilities} \cup {[capabilities |-> <<>>]}

VARIABLES
  lifecycle,                                  \* "created", "initialize", "running"
  hasConfigurationCapability,
  hasWorkspaceFolderCapability,
  hasDiagnosticRelatedInformationCapability,
  configurationRegistrations,                 \* client.register calls made
  workspaceFolderSubscriptions,               \* onDidChangeWorkspaceFolders calls made
  globalSettings,
  documentSettings,                           \* URI -> index in fetches, 0 when no entry
  fetches,                                    \* the promises getConfiguration returned, oldest first
  syncedDocuments,                            \* TextDocuments' map, in insertion order
  clientConfiguration,                        \* the client's value of section `lsp`
  published,                                  \* URI -> diagnostics the client shows
  sent,                                       \* publishDiagnostics sent by the last step
  response,                                   \* the reply of the last request
  syntaxDisabled,                             \* the last processed configuration change disabled diagnostics
  roundTrips,                                 \* URI -> fetches issued since its entry was last removed
  pubVersion                                  \* URI -> version of the pass behind `published`

vars == <<lifecycle, hasConfigurationCapability, hasWorkspaceFolderCapability,
          hasDiagnosticRelatedInformationCapability, configurationRegistrations,
          workspaceFolderSubscriptions, globalSettings, documentSettings, fetches,
          syncedDocuments, clientConfiguration, published, sent, response,
          syntaxDisabled, roundTrips, pubVersion>>

\* ---------------------------------------------------------------- helpers
Min(a, b) == IF a < b THEN a ELSE b

Range(s) == {s[i] : i \in DOMAIN s}

RemoveAt(s, i) == SubSeq(s, 1, i - 1) \o SubSeq(s, i + 1, Len(s))

\* ------------------------------------------------- TextDocument objects
\* TextDocuments keeps one TextDocument object per open URI and updates it in
\* place on didChange.  A suspended handler holds a reference to the object
\* it was started with: while that object is the tracked one (`live`) the
\* handler reads the tracked text, and once the object has left the table
\* (close, or a second open of the URI) nothing changes it any more, so the
\* reference is kept as the text the object had at that moment.
create(uri, version, text) == [uri |-> uri, version |-> version, text |-> text]

\* update that replaces the text and leaves the version as it was
updateKeepsVersion(document, text, version) == [document EXCEPT !.text = text]

update(document, text, version) == [document EXCEPT !.text = text, !.version = version]

tracked(synced, uri) == \E i \in DOMAIN synced : synced[i].uri = uri

\* documents.get(uri): <<document>>, or <<>> for undefined
get(synced, uri) == SelectSeq(synced, LAMBDA e : e.uri = uri)

\* Map.prototype.set: a present key keeps its position, a new key goes last
mapSet(synced, document) ==
  IF tracked(synced, document.uri)
  THEN LET i == CHOOSE k \in DOMAIN synced : synced[k].uri = document.uri
       IN  [synced EXCEPT ![i] = document]
  ELSE Append(synced, document)

\* Map.prototype.delete
mapDelete(synced, uri) == SelectSeq(synced, LAMBDA e : e.uri # uri)

\* ------------------------------------------------------ analysis engine
\* lsp-parser-utils is not part of the visible source: its two functions are
\* modelled from their contract (a token stream of the text, and at most
\* maxNumberOfProblems diagnostics for it; the tokenizer throws for input it
\* cannot split into tokens).
Problems(text) == IF text = "x = ((" THEN 2 ELSE 0

Throws(text) == text = "x = '"

parserContent(text) == [source |-> text, problems |-> Problems(text)]

checkSintaxe(maxNumberOfProblems, tokens) ==
  [k \in 1..Min(maxNumberOfProblems, tokens.problems) |-> [rule |-> k, source |-> tokens.source]]

\* ------------------------------------------------------- session state
\* The part of the state that the promise continuations read and write,
\* threaded through the handlers as one record.  `ok` turns FALSE when a
\* step would need more fetches or waiters than the bounds allow.
NoPublish == [set |-> FALSE, diagnostics |-> <<>>]

Session ==
  [ globalSettings   |-> globalSettings,
    documentSettings |-> documentSettings,
    fetches          |-> fetches,
    published        |-> published,
    sent             |-> <<>>,
    roundTrips       |-> roundTrips,
    pubVersion       |-> pubVersion,
    ok               |-> TRUE ]

RECURSIVE WaiterCount(_)
WaiterCount(fs) == IF fs = <<>> THEN 0 ELSE Len(Head(fs).waiters) + WaiterCount(Tail(fs))

\* connection.sendDiagnostics({uri, diagnostics})
sendDiagnostics(st, uri, diagnostics, kind, initVersion) ==
  [st EXCEPT
     !.published[uri]  = [set |-> TRUE, diagnostics |-> diagnostics],
     !.sent            = Append(@, [uri |-> uri, diagnostics |-> diagnostics, kind |-> kind,
                                    initVersion |-> initVersion,
                                    prevVersion |-> st.pubVersion[uri]]),
     !.pubVersion[uri] = initVersion]

\* connection.workspace.getConfiguration({scopeUri, section: 'lsp'}): sends
\* the request and returns the pending promise.  `stale` turns TRUE when a
\* configuration change is processed after the request was issued.
getConfiguration(st, scopeUri) ==
  [st EXCEPT !.fetches = Append(@, [state |-> "requested", value |-> defaultSettings,
                                    waiters |-> <<>>, uri |-> scopeUri, stale |-> FALSE]),
             !.ok = st.ok /\ Len(st.fetches) < MaxFetches]

\* getDocumentSettings without the cache lookup: a round trip per call
getDocumentSettingsUncached(st, resource) ==
  IF ~hasConfigurationCapability
  THEN [st |-> st, fetch |-> 0, settled |-> TRUE, rejected |-> FALSE,
        value |-> st.globalSettings]
  ELSE LET s2 == getConfiguration(st, resource)
           f  == Len(s2.fetches)
       IN  [st |-> [s2 EXCEPT !.documentSettings[resource] = f,
                              !.roundTrips[resource] = @ + 1],
            fetch |-> f, settled |-> FALSE, rejected |-> FALSE, value |-> defaultSettings]

\* getDocumentSettings(resource): the promise it returns, as
\* [st, fetch, settled, rejected, value]; fetch = 0 stands for
\* Promise.resolve(value)
getDocumentSettings(st, resource) ==
  IF ~hasConfigurationCapability
  THEN [st |-> st, fetch |-> 0, settled |-> TRUE, rejected |-> FALSE,
        value |-> st.globalSettings]
  ELSE LET result == st.documentSettings[resource] IN
       IF result # 0
       THEN [st |-> st, fetch |-> result,
             settled |-> st.fetches[result].state \in {"resolved", "rejected"},
             rejected |-> st.fetches[result].state = "rejected",
             value |-> st.fetches[result].value]
       ELSE LET s2 == getConfiguration(st, resource)
                f  == Len(s2.fetches)
            IN  [st |-> [s2 EXCEPT !.documentSettings[resource] = f,
                                   !.roundTrips[resource] = @ + 1],
                 fetch |-> f, settled |-> FALSE, rejected |-> FALSE,
                 value |-> defaultSettings]

\* textDocument.getText() of the object a handler holds
getText(synced, w) == IF w.live THEN get(synced, w.uri)[1].text ELSE w.text

\* validateTextDocument after its await: lines 168-183.  An exception of the
\* tokenizer leaves the async function before line 183: its promise rejects
\* and nothing is sent.
validateTextDocumentResume(st, synced, w, settings) ==
  IF settings.enabledSyntaxDiagnostic = FALSE
  THEN sendDiagnostics(st, w.uri, <<>>, "validate", w.initVersion)
  ELSE LET text == getText(synced, w) IN
       IF Throws(text)
       THEN st
       ELSE LET tokens == parserContent(text)
            IN  sendDiagnostics(st, w.uri, checkSintaxe(settings.maxNumberOfProblems, tokens),
                                "validate", w.initVersion)

\* a close continuation that clears the diagnostics whatever the settings say
onDidCloseResumeUnconditional(st, w, settings) ==
  sendDiagnostics(st, w.uri, <<>>, "close", 0)

\* the onDidClose handler after its await: lines 140-147
onDidCloseResume(st, w, settings) ==
  IF settings.enabledSyntaxDiagnostic = TRUE
  THEN sendDiagnostics(st, w.uri, <<>>, "close", 0)
  ELSE st

\* the continuation of a suspended handler, run with the awaited settings
resume(st, synced, w, settings) ==
  IF w.kind = "validate"
  THEN validateTextDocumentResume(st, synced, w, settings)
  ELSE onDidCloseResume(st, w, settings)

\* `await promise`: a fulfilled promise runs the continuation in the microtask
\* phase of the same macrotask, a rejected one throws in the async function,
\* which ends there, and a pending one parks the continuation behind the fetch
await(st, synced, promise, w) ==
  IF promise.settled
  THEN IF promise.rejected THEN promise.st
       ELSE resume(promise.st, synced, w, promise.value)
  ELSE LET s2 == promise.st IN
       [s2 EXCEPT !.fetches[promise.fetch].waiters = Append(@, w),
                  !.ok = s2.ok /\ WaiterCount(s2.fetches) < MaxWaiters]

\* validateTextDocument(textDocument): lines 164-184
validateTextDocument(st, synced, textDocument) ==
  await(st, synced, getDocumentSettings(st, textDocument.uri),
        [kind |-> "validate", uri |-> textDocument.uri, live |-> TRUE, text |-> "",
         initVersion |-> textDocument.version, fresh |-> TRUE])

\* documentSettings.delete(uri); the callers still waiting for the removed
\* entry are no longer callers of the present one
RECURSIVE staleWaiters(_, _)
staleWaiters(ws, uri) ==
  IF ws = <<>> THEN <<>>
  ELSE <<[Head(ws) EXCEPT !.fresh = @ /\ Head(ws).uri # uri]>> \o staleWaiters(Tail(ws), uri)

RECURSIVE staleFetches(_, _)
staleFetches(fs, uri) ==
  IF fs = <<>> THEN <<>>
  ELSE <<[Head(fs) EXCEPT !.waiters = staleWaiters(@, uri)]>> \o staleFetches(Tail(fs), uri)

deleteSettings(st, uri) ==
  [st EXCEPT
     !.documentSettings[uri] = 0,
     !.roundTrips[uri]       = 0,
     !.fetches               = staleFetches(@, uri)]

\* documentSettings.clear()
RECURSIVE clearFrom(_, _)
clearFrom(st, i) ==
  IF i > Len(URISeq) THEN st ELSE clearFrom(deleteSettings(st, URISeq[i]), i + 1)

\* a clear that leaves the entries where they are
clearSettingsSkipped(st) == st

clearSettings(st) == clearFrom(st, 1)

\* the requests issued so far precede the configuration change being handled
RECURSIVE supersede(_)
supersede(fs) ==
  IF fs = <<>> THEN <<>> ELSE <<[Head(fs) EXCEPT !.stale = TRUE]>> \o supersede(Tail(fs))

\* the object tracked for uri leaves the table: the handlers that hold it
\* keep reading the text it has now
RECURSIVE detachWaiters(_, _, _)
detachWaiters(ws, uri, text) ==
  IF ws = <<>> THEN <<>>
  ELSE <<IF Head(ws).uri = uri /\ Head(ws).live
         THEN [Head(ws) EXCEPT !.live = FALSE, !.text = text]
         ELSE Head(ws)>> \o detachWaiters(Tail(ws), uri, text)

RECURSIVE detachFetches(_, _, _)
detachFetches(fs, uri, text) ==
  IF fs = <<>> THEN <<>>
  ELSE <<[Head(fs) EXCEPT !.waiters = detachWaiters(@, uri, text)]>>
       \o detachFetches(Tail(fs), uri, text)

detach(st, synced, uri) ==
  IF tracked(synced, uri)
  THEN [st EXCEPT !.fetches = detachFetches(@, uri, get(synced, uri)[1].text)]
  ELSE st

\* --------------------------------------------------------------- steps
NoResponse == [method |-> "none", result |-> "none"]

\* a promise nothing refers to is garbage
Referenced(st, f) ==
  \/ st.fetches[f].waiters # <<>>
  \/ \E u \in URIs : st.documentSettings[u] = f

RECURSIVE collect(_, _)
collect(st, f) ==
  IF f > Len(st.fetches) THEN st
  ELSE IF Referenced(st, f) THEN collect(st, f + 1)
  ELSE collect([st EXCEPT !.fetches = RemoveAt(@, f),
                          !.documentSettings = [u \in URIs |-> IF @[u] > f THEN @[u] - 1 ELSE @[u]]],
               f)

\* the state a macrotask leaves behind
Commit(st, synced) ==
  /\ syncedDocuments'  = synced
  /\ response'         = NoResponse
  /\ st.ok
  /\ LET s2 == collect(st, 1) IN
     /\ globalSettings'   = s2.globalSettings
     /\ documentSettings' = s2.documentSettings
     /\ fetches'          = s2.fetches
     /\ published'        = s2.published
     /\ sent'             = s2.sent
     /\ roundTrips'       = s2.roundTrips
     /\ pubVersion'       = s2.pubVersion

handshake == <<lifecycle, hasConfigurationCapability, hasWorkspaceFolderCapability,
               hasDiagnosticRelatedInformationCapability, configurationRegistrations,
               workspaceFolderSubscriptions>>

session == <<globalSettings, documentSettings, fetches, syncedDocuments,
             published, syntaxDisabled, roundTrips, pubVersion>>

Init ==
  /\ lifecycle = "created"
  /\ hasConfigurationCapability = FALSE
  /\ hasWorkspaceFolderCapability = FALSE
  /\ hasDiagnosticRelatedInformationCapability = FALSE
  /\ configurationRegistrations = 0
  /\ workspaceFolderSubscriptions = 0
  /\ globalSettings = defaultSettings
  /\ documentSettings = [u \in URIs |-> 0]
  /\ fetches = <<>>
  /\ syncedDocuments = <<>>
  /\ clientConfiguration \in SettingsValues
  /\ published = [u \in URIs |-> NoPublish]
  /\ sent = <<>>
  /\ response = NoResponse
  /\ syntaxDisabled = FALSE
  /\ roundTrips = [u \in URIs |-> 0]
  /\ pubVersion = [u \in URIs |-> 0]

\* the InitializeResult of lines 43-63
InitializeResult(workspaceFolders) ==
  IF workspaceFolders THEN "capabilities, workspace.workspaceFolders" ELSE "capabilities"

\* an initialized handler that registers whatever was negotiated
onInitializedAlwaysRegisters ==
  /\ lifecycle = "initialize"
  /\ lifecycle' = "running"
  /\ configurationRegistrations' = configurationRegistrations + 1
  /\ workspaceFolderSubscriptions' =
       IF hasWorkspaceFolderCapability THEN workspaceFolderSubscriptions + 1
       ELSE workspaceFolderSubscriptions
  /\ sent' = <<>>
  /\ response' = NoResponse
  /\ UNCHANGED <<hasConfigurationCapability, hasWorkspaceFolderCapability,
                 hasDiagnosticRelatedInformationCapability, clientConfiguration, session>>

\* connection.onInitialize: lines 29-64.  Without a `capabilities` member
\* line 35 reads a property of undefined: the handler throws before it
\* assigns a flag and the request is answered with an error.
onInitialize(params) ==
  /\ lifecycle = "created"
  /\ IF params.capabilities = <<>>
     THEN /\ response' = [method |-> "initialize", result |-> "error"]
          /\ UNCHANGED <<lifecycle, hasConfigurationCapability, hasWorkspaceFolderCapability,
                         hasDiagnosticRelatedInformationCapability>>
     ELSE LET capabilities == params.capabilities[1] IN
          /\ lifecycle' = "initialize"
          /\ hasConfigurationCapability' =
               (capabilities.workspace # <<>> /\ capabilities.workspace[1].configuration)
          /\ hasWorkspaceFolderCapability' =
               (capabilities.workspace # <<>> /\ capabilities.workspace[1].workspaceFolders)
          /\ hasDiagnosticRelatedInformationCapability' =
               (/\ capabilities.textDocument # <<>>
                /\ capabilities.textDocument[1].publishDiagnostics # <<>>
                /\ capabilities.textDocument[1].publishDiagnostics[1].relatedInformation)
          /\ response' = [method |-> "initialize",
                          result |-> InitializeResult(hasWorkspaceFolderCapability')]
  /\ sent' = <<>>
  /\ UNCHANGED <<configurationRegistrations, workspaceFolderSubscriptions,
                 clientConfiguration, session>>

\* connection.onInitialized: lines 66-82
onInitialized ==
  /\ lifecycle = "initialize"
  /\ lifecycle' = "running"
  /\ configurationRegistrations' =
       IF hasConfigurationCapability THEN configurationRegistrations + 1
       ELSE configurationRegistrations
  /\ workspaceFolderSubscriptions' =
       IF hasWorkspaceFolderCapability THEN workspaceFolderSubscriptions + 1
       ELSE workspaceFolderSubscriptions
  /\ sent' = <<>>
  /\ response' = NoResponse
  /\ UNCHANGED <<hasConfigurationCapability, hasWorkspaceFolderCapability,
                 hasDiagnosticRelatedInformationCapability, clientConfiguration, session>>

\* textDocument/didOpen: TextDocuments creates the object, stores it and fires
\* onDidOpen (lines 150-154) and then onDidChangeContent (lines 158-162)
didOpen(uri, version, text) ==
  /\ lifecycle = "running"
  /\ LET document == create(uri, version, text)
         synced   == mapSet(syncedDocuments, document)
         st0 == detach([Session EXCEPT !.pubVersion[uri] = 0], syncedDocuments, uri)
         st1 == validateTextDocument(st0, synced, document)
         st2 == validateTextDocument(st1, synced, document)
     IN  Commit(st2, synced)
  /\ UNCHANGED <<handshake, clientConfiguration, syntaxDisabled>>

\* textDocument/didChange: TextDocuments updates the tracked object in place
\* and fires onDidChangeContent (lines 158-162); an untracked URI is ignored
didChange(uri, version, text) ==
  /\ lifecycle = "running"
  /\ IF ~tracked(syncedDocuments, uri)
     THEN Commit(Session, syncedDocuments)
     ELSE LET document == update(get(syncedDocuments, uri)[1], text, version)
              synced   == mapSet(syncedDocuments, document)
          IN  Commit(validateTextDocument(Session, synced, document), synced)
  /\ UNCHANGED <<handshake, clientConfiguration, syntaxDisabled>>

\* the documents.onDidClose handler up to its await: lines 135-139
onDidClose(st, synced, uri) ==
  LET st1 == deleteSettings(st, uri)
  IN  await(st1, synced, getDocumentSettings(st1, uri),
            [kind |-> "close", uri |-> uri, live |-> FALSE, text |-> "",
             initVersion |-> 0, fresh |-> TRUE])

\* textDocument/didClose: TextDocuments drops the object and fires onDidClose;
\* an untracked URI is ignored
didClose(uri) ==
  /\ lifecycle = "running"
  /\ IF ~tracked(syncedDocuments, uri)
     THEN Commit(Session, syncedDocuments)
     ELSE LET synced == mapDelete(syncedDocuments, uri)
              st0    == detach([Session EXCEPT !.pubVersion[uri] = 0], syncedDocuments, uri)
          IN  Commit(onDidClose(st0, synced, uri), synced)
  /\ UNCHANGED <<handshake, clientConfiguration, syntaxDisabled>>

\* documents.all().forEach(validateTextDocument): line 112
RECURSIVE forEachValidate(_, _, _)
forEachValidate(st, synced, i) ==
  IF i > Len(synced) THEN st
  ELSE forEachValidate(validateTextDocument(st, synced, synced[i]), synced, i + 1)

\* connection.onDidChangeConfiguration: lines 99-113.  Reading a member of a
\* null `settings` throws before anything is assigned or revalidated.
onDidChangeConfiguration(st, synced, settings) ==
  IF hasConfigurationCapability
  THEN forEachValidate(clearSettings([st EXCEPT !.fetches = supersede(@)]), synced, 1)
  ELSE IF ~settings.present
  THEN st
  ELSE forEachValidate([st EXCEPT !.globalSettings =
                           IF settings.languageServerExample # <<>>
                           THEN settings.languageServerExample[1]
                           ELSE defaultSettings],
                       synced, 1)

\* workspace/didChangeConfiguration: the client's configuration becomes
\* `value` and the notification carries it in the given shape
didChangeConfiguration(value, shape) ==
  /\ lifecycle = "running"
  /\ clientConfiguration' = value
  /\ syntaxDisabled' = IF ~hasConfigurationCapability /\ shape = "null"
                       THEN syntaxDisabled
                       ELSE ~value.enabledSyntaxDiagnostic
  /\ Commit(onDidChangeConfiguration(Session, syncedDocuments, Payload(shape, value)),
            syncedDocuments)
  /\ UNCHANGED handshake

\* the client reads its configuration and answers a workspace/configuration
\* request; the response is then on its way
clientAnswer(f) ==
  /\ f \in DOMAIN fetches
  /\ fetches[f].state = "requested"
  /\ fetches' = [fetches EXCEPT ![f].state = "answered", ![f].value = clientConfiguration]
  /\ sent' = <<>>
  /\ response' = NoResponse
  /\ UNCHANGED <<handshake, clientConfiguration, globalSettings, documentSettings,
                 syncedDocuments, published, syntaxDisabled, roundTrips, pubVersion>>

\* the continuations of a settled promise, in registration order
RECURSIVE resumeAll(_, _, _, _)
resumeAll(st, synced, ws, settings) ==
  IF ws = <<>> THEN st
  ELSE resumeAll(resume(st, synced, Head(ws), settings), synced, Tail(ws), settings)

\* the response arrives: the promise resolves and the continuations awaiting
\* it run in the order they were registered
resolve(f) ==
  /\ f \in DOMAIN fetches
  /\ fetches[f].state = "answered"
  /\ LET st0 == [Session EXCEPT !.fetches[f].state = "resolved", !.fetches[f].waiters = <<>>]
         st1 == resumeAll(st0, syncedDocuments, fetches[f].waiters, fetches[f].value)
     IN  Commit(st1, syncedDocuments)
  /\ UNCHANGED <<handshake, clientConfiguration, syntaxDisabled>>

\* the round trip fails (the client answers with an error): the promise
\* rejects, `await` throws in every handler that waits for it and none of
\* them has a catch; the rejected promise stays where it is cached
reject(f) ==
  /\ f \in DOMAIN fetches
  /\ fetches[f].state = "requested"
  /\ Commit([Session EXCEPT !.fetches[f].state = "rejected", !.fetches[f].waiters = <<>>],
            syncedDocuments)
  /\ UNCHANGED <<handshake, clientConfiguration, syntaxDisabled>>

\* ------------------------------------------------------------ requests
\* lsp-context is not part of the visible source: the three queries are
\* modelled from their contract, an empty or absent result for an undefined
\* document and the registry's answer for a tracked one; the two queries that
\* are handed the cancellation token signal cancellation when it is
\* cancelled already.
getHoverInfo(document) == IF document = <<>> THEN "null" ELSE "hover"

getCompletions(token, document) ==
  IF token THEN "cancelled" ELSE IF document = <<>> THEN "[]" ELSE "items"

getSignatureHelp(token, document) ==
  IF token THEN "cancelled" ELSE IF document = <<>> THEN "null" ELSE "signature"

\* a hover handler that reads the document before it delegates: a TypeError
\* for an undefined document
onHoverDereferences(synced, uri) ==
  IF get(synced, uri) = <<>> THEN "error" ELSE getHoverInfo(get(synced, uri))

\* connection.onHover: lines 192-197; the handler takes no token
onHover(synced, uri) == getHoverInfo(get(synced, uri))

\* connection.onCompletion: lines 200-205
onCompletion(synced, uri, token) == getCompletions(token, get(synced, uri))

\* connection.onCompletionResolve: lines 207-212
onCompletionResolve(item) == item

\* connection.onSignatureHelp: lines 214-219
onSignatureHelp(synced, uri, token) == getSignatureHelp(token, get(synced, uri))

\* a reply that also drops the cached settings
ReplyForgetsSettings(method, result) ==
  /\ lifecycle = "running"
  /\ response' = [method |-> method, result |-> result]
  /\ sent' = <<>>
  /\ documentSettings' = [u \in URIs |-> 0]
  /\ UNCHANGED <<handshake, clientConfiguration, globalSettings, fetches, syncedDocuments,
                 published, syntaxDisabled, roundTrips, pubVersion>>

\* the handler's result goes back as the response; nothing else is touched
Reply(method, result) ==
  /\ lifecycle = "running"
  /\ response' = [method |-> method, result |-> result]
  /\ sent' = <<>>
  /\ UNCHANGED <<handshake, clientConfiguration, session>>

\* the requests; `token` tells whether the request's cancellation token is
\* cancelled when the handler runs
hover(uri, token) == Reply("textDocument/hover", onHover(syncedDocuments, uri))

completion(uri, token) ==
  Reply("textDocument/completion", onCompletion(syncedDocuments, uri, token))

completionResolve(item) == Reply("completionItem/resolve", onCompletionResolve(item))

signatureHelp(uri, token) ==
  Reply("textDocument/signatureHelp", onSignatureHelp(syncedDocuments, uri, token))

\* connection.onDidChangeWatchedFiles: lines 186-190, a log line only
didChangeWatchedFiles ==
  /\ lifecycle = "running"
  /\ sent' = <<>>
  /\ response' = NoResponse
  /\ UNCHANGED <<handshake, clientConfiguration, session>>

\* ------------------------------------------------------- specifications
\* what a client that works on the documents in U, with the texts in T,
\* makes the session do
SessionSteps(U, T) ==
  \/ \E params \in InitializeParamsValues : onInitialize(params)
  \/ onInitialized
  \/ \E u \in U, v \in 1..MaxVersion, t \in T : didOpen(u, v, t)
  \/ \E u \in U, v \in 1..MaxVersion, t \in T : didChange(u, v, t)
  \/ \E u \in U : didClose(u)
  \/ \E s \in SettingsValues, p \in Shapes : didChangeConfiguration(s, p)
  \/ \E f \in 1..MaxFetches : clientAnswer(f)
  \/ \E f \in 1..MaxFetches : resolve(f)
  \/ \E f \in 1..MaxFetches : reject(f)
  \/ didChangeWatchedFiles

\* the requests of that client
RequestSteps(U) ==
  \/ \E u \in U, token \in BOOLEAN : hover(u, token)
  \/ \E u \in U, token \in BOOLEAN : completion(u, token)
  \/ completionResolve("items")
  \/ \E u \in U, token \in BOOLEAN : signatureHelp(u, token)

\* the notifications of a client that works on one document
Next == SessionSteps({URISeq[1]}, Texts)

Spec == Init /\ [][Next]_vars

\* the notifications and requests of a client that works on one document
\* whose text stays the same
NextRequests == SessionSteps({URISeq[1]}, {"x = (("}) \/ RequestSteps({URISeq[1]})

SpecRequests == Init /\ [][NextRequests]_vars

\* the notifications of a client that works on two documents with problems
NextWorkspace == SessionSteps(URIs, {t \in Texts : Problems(t) > 0})

SpecWorkspace == Init /\ [][NextWorkspace]_vars

\* ---------------------------------------------------------- properties
Waiters == {w \in UNION {Range(fetches[f].waiters) : f \in DOMAIN fetches} : TRUE}

WaitersOf(f) == Range(fetches[f].waiters)

\* C1: a validation pass initiated at version M of a document that has since
\* moved to a higher version publishes nothing once diagnostics of a pass
\* initiated at a version N > M are published for its URI: the completion of
\* a superseded pass is dropped.
C1_StalePassDropped ==
  \A i \in DOMAIN sent :
    ( /\ sent[i].kind = "validate"
      /\ tracked(syncedDocuments, sent[i].uri)
      /\ sent[i].initVersion < get(syncedDocuments, sent[i].uri)[1].version )
    => sent[i].initVersion >= sent[i].prevVersion

\* C2: once a configuration change that disables enabledSyntaxDiagnostic is
\* processed, no non-empty diagnostic set is published until a later change
\* enables it again.
C2_DisabledPublishesNothing ==
  syntaxDisabled => \A i \in DOMAIN sent : sent[i].diagnostics = <<>>

\* C3: in configuration-pull mode the callers of getDocumentSettings for one
\* URI, between two removals of its cache entry, cause exactly one client
\* round trip and all wait for (or read) that one promise.
C3_SingleFlight ==
  hasConfigurationCapability =>
    /\ \A u \in URIs : roundTrips[u] <= 1
    /\ \A f \in DOMAIN fetches : \A w \in WaitersOf(f) :
         w.fresh => documentSettings[w.uri] = f /\ roundTrips[w.uri] = 1

C3_Witness ==
  \E f \in DOMAIN fetches :
    /\ fetches[f].state # "resolved"
    /\ Len(fetches[f].waiters) = 3
    /\ \A w \in WaitersOf(f) : w.fresh /\ w.uri = URISeq[1]
    /\ roundTrips[URISeq[1]] = 1

\* C4: a didChange for a tracked URI whose version is not greater than the
\* stored version is rejected: the stored text and version stay as they are
\* and no validation pass is run for it.
C4_OutOfOrderChangeRejected ==
  [][\A u \in URIs, v \in 1..MaxVersion, t \in Texts :
       ( /\ didChange(u, v, t)
         /\ tracked(syncedDocuments, u)
         /\ v <= get(syncedDocuments, u)[1].version )
       => /\ syncedDocuments' = syncedDocuments
          /\ sent' = <<>>
          /\ fetches' = fetches]_vars

C6_CacheHoldsOpenDocumentsOnly ==
  (\A f \in DOMAIN fetches : fetches[f].waiters = <<>>)
  => \A u \in URIs : documentSettings[u] # 0 => tracked(syncedDocuments, u)

EmptyPublished(s, u) == \E i \in DOMAIN s : s[i].uri = u /\ s[i].diagnostics = <<>>

ClosePublished(s, u) == \E i \in DOMAIN s : s[i].uri = u /\ s[i].kind = "close"

PassInitiated(s, fs, ds, u) ==
  \/ \E i \in DOMAIN s : s[i].uri = u /\ s[i].kind = "validate"
  \/ \E f \in DOMAIN fs : \E k \in DOMAIN fs[f].waiters :
       /\ fs[f].waiters[k].uri = u
       /\ fs[f].waiters[k].kind = "validate"
       /\ fs[f].waiters[k].fresh
       /\ ds[u] = f

\* C8: handling didChangeConfiguration initiates a validation pass for every
\* open document, and where the notification carries the new values and they
\* enable diagnostics, the pass publishes the diagnostics computed with them.
C8_ConfigurationChangeRevalidates ==
  [][\A value \in SettingsValues, shape \in Shapes :
       didChangeConfiguration(value, shape) =>
         \A u \in URIs : tracked(syncedDocuments, u) =>
           /\ PassInitiated(sent', fetches', documentSettings', u)
           /\ (~hasConfigurationCapability /\ shape = "lsp" /\ value.enabledSyntaxDiagnostic)
              => published'[u].diagnostics =
                   checkSintaxe(value.maxNumberOfProblems,
                                parserContent(get(syncedDocuments, u)[1].text))]_vars

\* C9: without configuration-pull, a didChangeConfiguration that carries the
\* values of section `lsp` makes them the process-wide settings.
C9_PushedSectionBecomesGlobal ==
  [][\A value \in SettingsValues :
       (didChangeConfiguration(value, "lsp") /\ ~hasConfigurationCapability)
       => globalSettings' = value]_vars

Advertises(c) ==
  [ configuration      |-> \E w \in Range(c.workspace) : w.configuration,
    workspaceFolders   |-> \E w \in Range(c.workspace) : w.workspaceFolders,
    relatedInformation |-> \E t \in Range(c.textDocument) :
                             \E p \in Range(t.publishDiagnostics) : p.relatedInformation ]

\* C11: initialize sets the three capability flags to what the client's
\* capability record advertises, whatever the state before; initialized
\* registers for configuration changes once iff configuration-pull is on and
\* subscribes to workspace-folder changes once iff that flag is set, and no
\* later step registers or subscribes again.
C11_NegotiationFollowsCapabilities ==
  [][/\ \A c \in ClientCapabilities :
          onInitialize([capabilities |-> <<c>>]) =>
            /\ hasConfigurationCapability' = Advertises(c).configuration
            /\ hasWorkspaceFolderCapability' = Advertises(c).workspaceFolders
            /\ hasDiagnosticRelatedInformationCapability' = Advertises(c).relatedInformation
     /\ lifecycle' = "running" =>
          /\ configurationRegistrations' = IF hasConfigurationCapability' THEN 1 ELSE 0
          /\ workspaceFolderSubscriptions' = IF hasWorkspaceFolderCapability' THEN 1 ELSE 0
     /\ lifecycle' # "running" =>
          configurationRegistrations' = 0 /\ workspaceFolderSubscriptions' = 0]_vars

\* a session that runs without configuration-pull and with the
\* workspace-folder subscription made
C11_Witness ==
  /\ lifecycle = "running"
  /\ ~hasConfigurationCapability /\ configurationRegistrations = 0
  /\ hasWorkspaceFolderCapability /\ workspaceFolderSubscriptions = 1
  /\ hasDiagnosticRelatedInformationCapability

\* C15: an initialize request without a capability record, or with one that
\* lacks the workspace or the textDocument sub-record, is answered with the
\* server capability declaration and leaves configuration-pull and
\* workspace-folder support off.
C15_MalformedInitializeFallsBack ==
  [][\A params \in InitializeParamsValues :
       ( /\ onInitialize(params)
         /\ \/ params.capabilities = <<>>
            \/ params.capabilities[1].workspace = <<>>
            \/ params.capabilities[1].textDocument = <<>> )
       => /\ response' = [method |-> "initialize", result |-> InitializeResult(FALSE)]
          /\ lifecycle' = "initialize"
          /\ ~hasConfigurationCapability'
          /\ ~hasWorkspaceFolderCapability']_vars

\* C12: when the round trip of a settings fetch is rejected, every validation
\* pass that awaited it still publishes for its URI, and the cache does not
\* keep the failed fetch: a later getDocumentSettings for the URI is not
\* answered with the rejected promise.
C12_FetchFailureFallsBack ==
  [][\A f \in 1..MaxFetches : reject(f) =>
       /\ \A w \in WaitersOf(f) :
            w.kind = "validate" =>
              \E i \in DOMAIN sent' : sent'[i].uri = w.uri /\ sent'[i].kind = "validate"
       /\ \A u \in URIs :
            documentSettings'[u] # 0 => fetches'[documentSettings'[u]].state # "rejected"]_vars

\* C13: a validation pass whose text makes the tokenizer throw publishes the
\* empty diagnostic set for its URI.
C13_EngineFailurePublishesEmpty ==
  [][/\ \A u \in URIs, v \in 1..MaxVersion, t \in Texts :
          ( /\ didChange(u, v, t) \/ didOpen(u, v, t)
            /\ didChange(u, v, t) => tracked(syncedDocuments, u)
            /\ ~hasConfigurationCapability
            /\ globalSettings.enabledSyntaxDiagnostic
            /\ Throws(t) )
          => EmptyPublished(sent', u)
     /\ \A f \in 1..MaxFetches :
          (resolve(f) /\ fetches[f].value.enabledSyntaxDiagnostic) =>
            \A w \in WaitersOf(f) :
              (w.kind = "validate" /\ Throws(getText(syncedDocuments, w)))
              => EmptyPublished(sent', w.uri)]_vars

\* C14: a hover, completion or signature-help request whose cancellation
\* token is cancelled when it is handled is answered with the cancellation
\* signal, not with a result of the analysis engine.
C14_CancelledRequestAbandoned ==
  [][\A u \in URIs :
       /\ hover(u, TRUE) => response'.result = "cancelled"
       /\ completion(u, TRUE) => response'.result = "cancelled"
       /\ signatureHelp(u, TRUE) => response'.result = "cancelled"]_vars

\* C19: a completion, completionItem/resolve, hover or signature-help request
\* leaves the open-document table, the settings cache, the process-wide
\* settings and the capability flags as they are, issues no settings fetch and
\* publishes nothing.
C19_RequestsChangeNothing ==
  [][( \/ \E u \in URIs, token \in BOOLEAN :
            hover(u, token) \/ completion(u, token) \/ signatureHelp(u, token)
       \/ completionResolve("items") )
     => /\ UNCHANGED <<syncedDocuments, documentSettings, fetches, roundTrips, globalSettings,
                       hasConfigurationCapability, hasWorkspaceFolderCapability,
                       hasDiagnosticRelatedInformationCapability, published>>
        /\ sent' = <<>>]_vars

\* completion answered for an open document whose settings are cached
C19_Witness ==
  /\ response = [method |-> "textDocument/completion", result |-> "items"]
  /\ tracked(syncedDocuments, URISeq[1])
  /\ documentSettings[URISeq[1]] # 0

Outstanding(f) == fetches[f].state \in {"requested", "answered"}

\* C16: in configuration-pull mode a getDocumentSettings call made after a
\* configuration change was processed is never answered with a fetch issued
\* before that change: no cache entry refers to such a fetch, and no caller
\* since the entry's last removal waits for one.
C16_InvalidationTakesEffect ==
  hasConfigurationCapability =>
    /\ \A u \in URIs : documentSettings[u] # 0 => ~fetches[documentSettings[u]].stale
    /\ \A f \in DOMAIN fetches : \A w \in WaitersOf(f) : w.fresh => ~fetches[f].stale

\* a fetch issued before the change is still in flight while the cache
\* holds a fetch issued after it for the same URI
C16_Witness ==
  \E f \in DOMAIN fetches :
    /\ fetches[f].stale /\ Outstanding(f) /\ fetches[f].waiters # <<>>
    /\ documentSettings[fetches[f].uri] \notin {0, f}
    /\ Outstanding(documentSettings[fetches[f].uri])

\* C17: in configuration-pull mode at most one settings fetch per URI is
\* outstanding in every reachable state.
C17_OneFetchInFlightPerURI ==
  hasConfigurationCapability =>
    \A u \in URIs :
      Cardinality({f \in DOMAIN fetches : fetches[f].uri = u /\ Outstanding(f)}) <= 1

\* C18: a change to a document does not alter the text that a validation
\* pass suspended at that moment will analyse: the pass keeps the text the
\* document had when the pass was initiated.
C18_PassAnalysesInitialText ==
  [][\A u \in URIs, v \in 1..MaxVersion, t \in Texts :
       didChange(u, v, t) =>
         \A f \in DOMAIN fetches : \A k \in DOMAIN fetches[f].waiters :
           fetches[f].waiters[k].kind = "validate" =>
             getText(syncedDocuments', fetches'[f].waiters[k])
               = getText(syncedDocuments, fetches[f].waiters[k])]_vars

\* C20: once a document is closed and no handler for its URI is suspended
\* any more, the diagnostic set last published for the URI is empty.
C20_ClosedDocumentShowsNothing ==
  \A u \in URIs :
    ( /\ ~tracked(syncedDocuments, u)
      /\ published[u].set
      /\ \A w \in Waiters : w.uri # u )
    => published[u].diagnostics = <<>>

====
